---------------------------- MODULE Spec2Model ----------------------------
(***************************************************************************)
(* Multi-capture entity reconciliation of the mortgage document analyzer.  *)
(*                                                                         *)
(* The model covers the session state kept by MortgageDocumentAnalyzerApp  *)
(* (src/src/main.py: the list all_analysis_results and the capture         *)
(* workflows that grow it) and by ResultsWindow (src/src/ui/               *)
(* results_window.py: the fold _combine_analysis_results, the cached       *)
(* combined_entities, the entry widgets and Save Edits).                   *)
(*                                                                         *)
(* Text is modelled as a sequence of one-character strings, so that        *)
(* strip(), lower(), re.sub, split, join, sorted and difflib's ratio are   *)
(* computed character by character, as the Python code computes them.      *)
(* A Python value is a record [t |-> type tag, v |-> payload]:             *)
(*   "str"    v = sequence of characters                                   *)
(*   "list"   v = sequence of values (the items of a list)                 *)
(*   "dict"   v = sequence of [k |-> characters, v |-> characters]         *)
(*            (insertion order, as a Python dict keeps it)                 *)
(*   "none"   v = << >>  (None)                                            *)
(*   "int"    v = << n >>                                                  *)
(*   "rider"  v = << Name value, SignedAttached value >> (a Rider object   *)
(*            or, after dataclasses.asdict, the dict of its two fields)    *)
(*   "absent" v = << >>  (a key that is not in a dict)                     *)
(***************************************************************************)
EXTENDS Integers, Sequences, FiniteSets, TLC

VARIABLES
    all_analysis_results,   \* main.py:41  the capture list (shared with the window)
    combined_entities,      \* results_window.py:28  the cached combined record
    selecting,              \* number of workflows awaiting select_region/crop_image
    analyzing,              \* number of workflows awaiting analyze_mortgage_document
    ui_pending,             \* number of root.after(0, ...) refreshes scheduled
    entity_entries,         \* results_window.py:27  the entry widgets and their text
    legal_widget,           \* results_window.py:29  the legal description Text widget
    edits,                  \* number of Save Edits presses so far (bounds the run)
    last_op                 \* the handler that ran last (history, for the claims)

vars == << all_analysis_results, combined_entities, selecting, analyzing,
           ui_pending, entity_entries, legal_widget, edits, last_op >>

---------------------------------------------------------------------------
(* Bounds of the model.                                                    *)

\* Longest capture list explored (Document_0 included).
MaxResults == 3
\* Most capture workflows in flight at once.
MaxTasks == 2
\* Most scheduled window refreshes outstanding at once.
MaxUiPending == 1
\* Most presses of Save Edits in one run.
MaxEdits == 1

---------------------------------------------------------------------------
(* Characters and Python's str methods.                                    *)

\* The characters of the model in code-point order (a sub-sequence of ASCII).
ASCII ==
    << "\n", " ", "$", "(", ")", ",", ".", "/",
       "0", "1", "2", "3", "4", "5", "6", "7", "8", "9", ":",
       "A", "B", "C", "D", "E", "F", "G", "H", "I", "J", "K", "L", "M",
       "N", "O", "P", "Q", "R", "S", "T", "U", "V", "W", "X", "Y", "Z", "_",
       "a", "b", "c", "d", "e", "f", "g", "h", "i", "j", "k", "l", "m",
       "n", "o", "p", "q", "r", "s", "t", "u", "v", "w", "x", "y", "z" >>

OrdTable ==
    [c \in {ASCII[i] : i \in 1..Len(ASCII)} |->
        CHOOSE i \in 1..Len(ASCII) : ASCII[i] = c]

\* ord(c), up to the gaps of the sub-sequence
ord(c) == OrdTable[c]

UpperA == ord("A")
UpperZ == ord("Z")
LowerA == ord("a")
LowerZ == ord("z")
Digit0 == ord("0")
Digit9 == ord("9")

\* str.lower() on one character
lower_char(c) ==
    IF ord(c) >= UpperA /\ ord(c) <= UpperZ
    THEN ASCII[ord(c) - UpperA + LowerA]
    ELSE c

\* str.lower()
lower(s) == [i \in 1..Len(s) |-> lower_char(s[i])]

isspace(c) == c \in {" ", "\n"}

RECURSIVE lstrip(_)
lstrip(s) ==
    IF s = << >> THEN << >>
    ELSE IF isspace(Head(s)) THEN lstrip(Tail(s)) ELSE s

RECURSIVE rstrip(_)
rstrip(s) ==
    IF s = << >> THEN << >>
    ELSE IF isspace(s[Len(s)]) THEN rstrip(SubSeq(s, 1, Len(s) - 1)) ELSE s

\* str.strip()
strip(s) == rstrip(lstrip(s))

\* re.sub(r'[...]', '', s): the characters of s that are not in the class
RECURSIVE re_sub_remove(_, _)
re_sub_remove(class, s) ==
    IF s = << >> THEN << >>
    ELSE IF Head(s) \in class
         THEN re_sub_remove(class, Tail(s))
         ELSE << Head(s) >> \o re_sub_remove(class, Tail(s))

\* Python's < on str: lexicographic by code point
RECURSIVE str_less(_, _)
str_less(a, b) ==
    IF b = << >> THEN FALSE
    ELSE IF a = << >> THEN TRUE
    ELSE IF Head(a) = Head(b) THEN str_less(Tail(a), Tail(b))
    ELSE ord(Head(a)) < ord(Head(b))

\* sorted(list(S)) for a set S of str
RECURSIVE sorted(_)
sorted(S) ==
    IF S = {} THEN << >>
    ELSE LET m == CHOOSE x \in S : \A y \in S \ {x} : str_less(x, y)
         IN << m >> \o sorted(S \ {m})

\* list(S) for a set S: a set of str iterates in hash order, which a
\* fresh interpreter may change; every enumeration of S is possible
set_orders(S) ==
    {q \in [1..Cardinality(S) -> S] : \A i, j \in DOMAIN q : q[i] = q[j] => i = j}

\* variant of sorted_list that returns the list as it came (C11 must fail
\* with it)
unsorted_list(q) == q

\* sorted(q) for a list q of str: the items in ascending order, by
\* insertion of each item after the items that are not greater
RECURSIVE sorted_list(_)
sorted_list(q) ==
    IF q = << >> THEN << >>
    ELSE LET rest == sorted_list(SubSeq(q, 1, Len(q) - 1))
             x == q[Len(q)]
             n == Cardinality({i \in DOMAIN rest : ~str_less(x, rest[i])})
         IN  SubSeq(rest, 1, n) \o << x >> \o SubSeq(rest, n + 1, Len(rest))

\* sep.join(parts)
RECURSIVE join(_, _)
join(sep, parts) ==
    IF parts = << >> THEN << >>
    ELSE IF Len(parts) = 1 THEN parts[1]
    ELSE parts[1] \o sep \o join(sep, Tail(parts))

\* s.split(c) for a one-character separator c
RECURSIVE split(_, _)
split(s, c) ==
    IF \A i \in 1..Len(s) : s[i] # c THEN << s >>
    ELSE LET i == CHOOSE j \in 1..Len(s) :
                      s[j] = c /\ \A k \in 1..(j - 1) : s[k] # c
         IN << SubSeq(s, 1, i - 1) >> \o split(SubSeq(s, i + 1, Len(s)), c)

Range(q) == {q[i] : i \in 1..Len(q)}

---------------------------------------------------------------------------
(* Python values.                                                          *)

Str(s)      == [t |-> "str", v |-> s]
List(items) == [t |-> "list", v |-> items]
Dict(kvs)   == [t |-> "dict", v |-> kvs]
None        == [t |-> "none", v |-> << >>]
Absent      == [t |-> "absent", v |-> << >>]
RiderOf(name, signed) == [t |-> "rider", v |-> << name, signed >>]

\* Literals of the source.
NA          == << "N", "/", "A" >>
No          == << "N", "o" >>
Yes         == << "Y", "e", "s" >>
NotListed   == << "N", "o", "t", " ", "L", "i", "s", "t", "e", "d" >>
Processing  == "Processing..."


\* The fields of MortgageDocumentEntities that the model carries, in the
\* order of the dataclass (the order in which asdict and the fold visit
\* them).  LenderName and RecordingStampPresent stand for the str fields
\* that the fold sends to its final else branch.
FieldOrder ==
    << "BorrowerNames", "LenderName", "LoanAmount", "RecordingStampPresent",
       "PageCount", "BorrowerSignaturesPresent", "RidersPresent",
       "LegalDescriptionPresent", "LegalDescriptionDetail" >>

Fields == Range(FieldOrder)

\* MortgageDocumentEntities(): the defaults of the dataclass
MortgageDocumentEntities ==
    [f \in Fields |->
        CASE f = "BorrowerNames"             -> List(<< >>)
          [] f = "LenderName"                -> Str(NA)
          [] f = "LoanAmount"                -> Str(NA)
          [] f = "RecordingStampPresent"     -> Str(No)
          [] f = "PageCount"                 -> None
          [] f = "BorrowerSignaturesPresent" -> Dict(<< >>)
          [] f = "RidersPresent"             -> List(<< >>)
          [] f = "LegalDescriptionPresent"   -> Str(No)
          [] f = "LegalDescriptionDetail"    -> Str(NA)]

\* document_id: f"Document_{n}", f"Document_{n}_Error" and the dataclass
\* default "Unnamed Document"
DocumentId(n)      == [doc |-> n, error |-> FALSE]
DocumentIdError(n) == [doc |-> n, error |-> TRUE]
UnnamedDocument    == [doc |-> -1, error |-> FALSE]

\* error = None
NoError == "None"

AnalysisResult(entities, summary, error, document_id) ==
    [entities |-> entities, summary |-> summary, error |-> error,
     document_id |-> document_id]

---------------------------------------------------------------------------
(* Validity Classifier: ResultsWindow._is_value_valid                      *)

LegalDescriptionIsMissing ==
    << "l", "e", "g", "a", "l", " ", "d", "e", "s", "c", "r", "i", "p", "t",
       "i", "o", "n", " ", "i", "s", " ", "m", "i", "s", "s", "i", "n", "g" >>

\* the strings of line 150, already lower-case
InvalidStrings ==
    { << "n", "/", "a" >>, lower(NotListed), LegalDescriptionIsMissing, << >> }

is_value_valid(value) ==
    CASE value.t \in {"none", "absent"} -> FALSE
      [] value.t = "str" ->
            /\ lower(strip(value.v)) \notin InvalidStrings
            /\ strip(value.v) # No
      [] value.t \in {"list", "dict"} -> value.v # << >>
      [] OTHER -> TRUE

---------------------------------------------------------------------------
(* Similarity Matcher: _normalize_string_for_comparison, is_similar_name   *)
(* and difflib.SequenceMatcher.ratio (no junk; autojunk needs 200 chars).  *)

isalnum_lower(c) ==
    \/ ord(c) >= LowerA /\ ord(c) <= LowerZ
    \/ ord(c) >= Digit0 /\ ord(c) <= Digit9

normalize_string_for_comparison(s) ==
    re_sub_remove({c \in Range(lower(s)) : ~isalnum_lower(c)}, lower(s))

\* length of the common run of a[i..ahi] and b[j..bhi]
RECURSIVE common_run(_, _, _, _, _, _)
common_run(a, i, ahi, b, j, bhi) ==
    IF i > ahi \/ j > bhi THEN 0
    ELSE IF a[i] # b[j] THEN 0
    ELSE 1 + common_run(a, i + 1, ahi, b, j + 1, bhi)

\* SequenceMatcher.find_longest_match on a[alo..ahi], b[blo..bhi]: the
\* longest block, of those the one earliest in a, of those the one
\* earliest in b.  << i, j, k >>, k = 0 when nothing matches.
find_longest_match(a, alo, ahi, b, blo, bhi) ==
    LET cands == (alo..ahi) \X (blo..bhi)
        k(p)  == common_run(a, p[1], ahi, b, p[2], bhi)
    IN  IF cands = {} THEN << alo, blo, 0 >>
        ELSE LET best == CHOOSE p \in cands :
                            \A q \in cands :
                                \/ k(p) > k(q)
                                \/ k(p) = k(q) /\ p[1] < q[1]
                                \/ k(p) = k(q) /\ p[1] = q[1] /\ p[2] <= q[2]
             IN << best[1], best[2], k(best) >>

\* sum of the sizes of SequenceMatcher.get_matching_blocks
RECURSIVE matches(_, _, _, _, _, _)
matches(a, alo, ahi, b, blo, bhi) ==
    LET m == find_longest_match(a, alo, ahi, b, blo, bhi)
    IN  IF m[3] = 0 THEN 0
        ELSE m[3] + matches(a, alo, m[1] - 1, b, blo, m[2] - 1)
                  + matches(a, m[1] + m[3], ahi, b, m[2] + m[3], bhi)

\* threshold of is_similar_name, in hundredths
ThresholdPct == 85

\* SequenceMatcher(None, a, b).ratio() >= threshold, ratio = 2.0 * M / T
ratio_at_least_threshold(a, b) ==
    LET T == Len(a) + Len(b)
        M == matches(a, 1, Len(a), b, 1, Len(b))
    IN  IF T = 0 THEN TRUE ELSE 2 * M * 100 >= ThresholdPct * T

is_similar_name(existing_names, new_name) ==
    LET norm_new_name == normalize_string_for_comparison(new_name)
    IN  IF norm_new_name = << >> THEN FALSE
        ELSE \E existing_name \in existing_names :
                LET norm_existing_name ==
                        normalize_string_for_comparison(existing_name)
                IN  /\ norm_existing_name # << >>
                    /\ ratio_at_least_threshold(norm_new_name, norm_existing_name)

---------------------------------------------------------------------------
(* Field Merger and Consistency Repair:                                    *)
(* ResultsWindow._combine_analysis_results                                 *)
(*                                                                         *)
(* The dict `combined` is [ent |-> field -> value or Absent,               *)
(* err |-> the "Error (<document_id>)" entries in insertion order,         *)
(* raised |-> an exception left the fold].                                 *)

EmptyCombined ==
    [ent |-> [f \in Fields |-> Absent], err |-> << >>, raised |-> FALSE]

\* asdict(MortgageDocumentEntities()) of line 167
DefaultCombined ==
    [ent |-> MortgageDocumentEntities, err |-> << >>, raised |-> FALSE]

\* str(x) for the values a scalar field holds
py_str(value) ==
    IF value.t = "none" THEN << "N", "o", "n", "e" >> ELSE value.v

\* variant of add_names without the similarity test (C3 must fail with it)
RECURSIVE add_names_no_dedup(_, _)
add_names_no_dedup(existing_names, names) ==
    IF names = << >> THEN existing_names
    ELSE LET cleaned_name == strip(Head(names).v)
         IN  IF is_value_valid(Str(cleaned_name))
             THEN add_names_no_dedup(existing_names \cup {cleaned_name}, Tail(names))
             ELSE add_names_no_dedup(existing_names, Tail(names))

\* lines 180-187: BorrowerNames.  name.strip() raises on an item that is
\* not a str.
RECURSIVE add_names(_, _)
add_names(existing_names, names) ==
    IF names = << >> THEN existing_names
    ELSE LET cleaned_name == strip(Head(names).v)
         IN  IF /\ is_value_valid(Str(cleaned_name))
                /\ ~is_similar_name(existing_names, cleaned_name)
             THEN add_names(existing_names \cup {cleaned_name}, Tail(names))
             ELSE add_names(existing_names, Tail(names))

list_strs(value) == IF value.t = "list" THEN {x.v : x \in Range(value.v)} ELSE {}

merge_BorrowerNames(combined, key, current_value) ==
    LET existing_names == list_strs(combined.ent[key])
    IN  IF current_value.t = "list"
           /\ \E x \in Range(current_value.v) : x.t # "str"
        THEN [combined EXCEPT !.raised = TRUE]
        ELSE LET names == IF current_value.t = "list"
                          THEN add_names(existing_names, current_value.v)
                          ELSE existing_names
                 out == sorted(names)
             IN  [combined EXCEPT
                    !.ent[key] = List([i \in 1..Len(out) |-> Str(out[i])])]

\* variant of upsert_rider that adds an entry whether or not the Name is
\* a key of the map (C4 must fail with it)
upsert_rider_append(riders_map, rider_obj) == Append(riders_map, rider_obj)

\* lines 204-219: RidersPresent.  existing_riders_map is an insertion-
\* ordered dict Name -> Rider, here a sequence of riders with distinct
\* names; assigning to a key that is present keeps its position.
upsert_rider(riders_map, rider_obj) ==
    IF \E i \in 1..Len(riders_map) : riders_map[i].v[1] = rider_obj.v[1]
    THEN [i \in 1..Len(riders_map) |->
            IF riders_map[i].v[1] = rider_obj.v[1] THEN rider_obj
            ELSE riders_map[i]]
    ELSE Append(riders_map, rider_obj)

RECURSIVE add_riders(_, _)
add_riders(riders_map, riders) ==
    IF riders = << >> THEN riders_map
    ELSE LET rider_data == Head(riders)
         IN  IF rider_data.t = "rider" /\ is_value_valid(rider_data.v[1])
             THEN add_riders(upsert_rider(riders_map, rider_data), Tail(riders))
             ELSE add_riders(riders_map, Tail(riders))

merge_RidersPresent(combined, key, current_value) ==
    LET existing_riders_map ==
            IF combined.ent[key].t = "list" THEN combined.ent[key].v ELSE << >>
        riders == IF current_value.t = "list"
                  THEN add_riders(existing_riders_map, current_value.v)
                  ELSE existing_riders_map
    IN  [combined EXCEPT !.ent[key] = List(riders)]

\* lines 221-228: LegalDescriptionDetail
merge_LegalDescriptionDetail(combined, key, current_value) ==
    LET existing_detail ==
            IF combined.ent[key].t = "absent" THEN Str(NA) ELSE combined.ent[key]
    IN  IF is_value_valid(current_value)
        THEN IF \/ ~is_value_valid(existing_detail)
                \/ strip(current_value.v) # strip(existing_detail.v)
             THEN [combined EXCEPT
                      !.ent[key] = current_value,
                      !.ent["LegalDescriptionPresent"] = Str(Yes)]
             ELSE combined
        ELSE IF combined.ent[key].t = "absent"
             THEN [combined EXCEPT !.ent[key] = current_value]
             ELSE combined

\* lines 230-234: LegalDescriptionPresent
merge_LegalDescriptionPresent(combined, key, current_value) ==
    IF is_value_valid(current_value) /\ current_value.t = "str" /\ current_value.v = Yes
    THEN [combined EXCEPT !.ent[key] = Str(Yes)]
    ELSE IF combined.ent[key].t = "absent" /\ ~is_value_valid(current_value)
         THEN [combined EXCEPT !.ent[key] = current_value]
         ELSE combined

\* lines 236-241: LoanAmount
merge_LoanAmount(combined, key, current_value) ==
    LET cleaned_amount == re_sub_remove({"$", ","}, strip(py_str(current_value)))
    IN  IF is_value_valid(Str(cleaned_amount))
        THEN [combined EXCEPT !.ent[key] = Str(cleaned_amount)]
        ELSE IF combined.ent[key].t = "absent"
             THEN [combined EXCEPT !.ent[key] = current_value]
             ELSE combined

\* variant of merge_other: the value of the capture is stored whether or
\* not it is informative (C2 must fail with it)
merge_other_overwrite(combined, key, current_value) ==
    [combined EXCEPT !.ent[key] = current_value]

\* lines 242-247: every other field
merge_other(combined, key, current_value) ==
    IF ~is_value_valid(combined.ent[key]) /\ is_value_valid(current_value)
    THEN [combined EXCEPT !.ent[key] = current_value]
    ELSE IF combined.ent[key].t = "absent"
         THEN [combined EXCEPT !.ent[key] = current_value]
         ELSE combined

\* lines 179-247: the dispatch on the key
merge_key(combined, key, current_value) ==
    CASE key = "BorrowerNames" -> merge_BorrowerNames(combined, key, current_value)
      [] key = "RidersPresent" -> merge_RidersPresent(combined, key, current_value)
      [] key = "LegalDescriptionDetail" ->
            merge_LegalDescriptionDetail(combined, key, current_value)
      [] key = "LegalDescriptionPresent" ->
            merge_LegalDescriptionPresent(combined, key, current_value)
      [] key = "LoanAmount" -> merge_LoanAmount(combined, key, current_value)
      [] OTHER -> merge_other(combined, key, current_value)

\* lines 177-247: one capture without error, key by key in dataclass order
RECURSIVE merge_entities(_, _, _)
merge_entities(combined, current_entities_dict, keys) ==
    IF keys = << >> \/ combined.raised THEN combined
    ELSE merge_entities(
            merge_key(combined, Head(keys), current_entities_dict[Head(keys)]),
            current_entities_dict, Tail(keys))

\* lines 170-175: a capture with an error adds its entry once per key
merge_error(combined, result) ==
    IF \E i \in 1..Len(combined.err) : combined.err[i].key = result.document_id
    THEN combined
    ELSE [combined EXCEPT
            !.err = Append(@, [key |-> result.document_id, error |-> result.error])]

\* lines 169-247: the loop over the captures, oldest first
RECURSIVE merge_results(_, _)
merge_results(combined, all_results) ==
    IF all_results = << >> \/ combined.raised THEN combined
    ELSE LET result == Head(all_results)
         IN  merge_results(
                IF result.error # NoError
                THEN merge_error(combined, result)
                ELSE merge_entities(combined, result.entities, FieldOrder),
                Tail(all_results))

\* variant of final_check that leaves the flag as the fold left it (C6
\* must fail with it)
final_check_skipped(combined) == combined

\* lines 249-253: the final check of the presence flag
final_check(combined) ==
    IF combined.raised THEN combined
    ELSE IF /\ combined.ent["LegalDescriptionDetail"].t # "absent"
            /\ ~is_value_valid(combined.ent["LegalDescriptionDetail"])
         THEN [combined EXCEPT !.ent["LegalDescriptionPresent"] = Str(No)]
         ELSE IF combined.ent["LegalDescriptionPresent"].t = "absent"
              THEN [combined EXCEPT !.ent["LegalDescriptionPresent"] = Str(No)]
              ELSE combined

\* variant of only_dummy without the early return (C10 must fail with it)
only_dummy_never(all_results) == FALSE

\* lines 164-167: no capture, or only the initial dummy
only_dummy(all_results) ==
    \/ all_results = << >>
    \/ Len(all_results) = 1 /\ all_results[1].document_id = DocumentId(0)

combine_analysis_results(all_results) ==
    IF only_dummy(all_results) THEN DefaultCombined
    ELSE final_check(merge_results(EmptyCombined, all_results))

---------------------------------------------------------------------------
(* Presentation: _display_entity_fields, _display_legal_description_section *)
(* and _populate_content.                                                  *)
(*                                                                         *)
(* entity_entries is [fields |-> field -> text of its entry widget (the    *)
(* widgets are keyed by display name; ENTITY_DISPLAY_NAMES is one-to-one   *)
(* on the fields), errors |-> the document ids whose "Error (...)" key     *)
(* got an entry widget].                                                   *)
(* legal_widget is [exists |-> winfo_exists(), text |-> its content].      *)

NoEntries == [fields |-> << >>, errors |-> {}]
NoLegalWidget == [exists |-> FALSE, text |-> << >>]

\* keys that line 278 never shows as an entry
NotDisplayed == {"LegalDescriptionPresent", "LegalDescriptionDetail", "PageCount"}

\* f"{r.Name} (Signed: {r.SignedAttached})"
format_rider(r) ==
    py_str(r.v[1]) \o << " ", "(", "S", "i", "g", "n", "e", "d", ":", " " >>
                   \o py_str(r.v[2]) \o << ")" >>

\* f"{k}: {v}"
format_item(kv) == kv.k \o << ":", " " >> \o kv.v

\* lines 283-302: the text shown for a value
value_str(key, value) ==
    LET plain ==
            CASE value.t = "list" /\ key = "RidersPresent" ->
                    join(<< "\n" >>,
                         [i \in 1..Len(value.v) |-> format_rider(value.v[i])])
              [] value.t = "list" /\ key # "RidersPresent" ->
                    join(<< ",", " " >>,
                         [i \in 1..Len(value.v) |-> py_str(value.v[i])])
              [] value.t = "dict" ->
                    join(<< ",", " " >>,
                         [i \in 1..Len(value.v) |-> format_item(value.v[i])])
              [] OTHER -> py_str(value)
    IN  IF key = "LoanAmount"
        THEN strip(re_sub_remove({"$", ","}, plain))
        ELSE plain

\* lines 276-308: one entry per valid value of the combined record
display_entity_fields(entities_to_display) ==
    LET shown == {k \in Fields \ NotDisplayed :
                     is_value_valid(entities_to_display.ent[k])}
    IN  [fields |-> [k \in shown |-> value_str(k, entities_to_display.ent[k])],
         errors |-> {entities_to_display.err[i].key :
                        i \in 1..Len(entities_to_display.err)}
                    \ {DocumentId(0)}]

\* lines 339-360: the legal description section
display_legal_description_section(combined) ==
    LET present == combined.ent["LegalDescriptionPresent"]
        legal_present == IF present.t = "absent" THEN Str(No) ELSE present
        detail == combined.ent["LegalDescriptionDetail"]
        legal_detail == IF detail.t = "absent" THEN Str(NA) ELSE detail
    IN  IF (legal_present.t = "str" /\ legal_present.v = Yes)
           \/ is_value_valid(legal_detail)
        THEN [exists |-> TRUE, text |-> py_str(legal_detail)]
        ELSE NoLegalWidget

\* lines 369-391: _populate_content.  _clear_grid_widgets destroys every
\* widget first; an exception in the fold leaves the old combined_entities
\* and an empty grid.
populate_content(all_results) ==
    \E combined \in {combine_analysis_results(all_results)} :
        IF combined.raised
        THEN /\ combined_entities' = combined_entities
             /\ entity_entries' = NoEntries
             /\ legal_widget' = NoLegalWidget
        ELSE /\ combined_entities' = combined
             /\ entity_entries' = display_entity_fields(combined)
             /\ legal_widget' = display_legal_description_section(combined)

---------------------------------------------------------------------------
(* Save Edits: ResultsWindow._save_edits_to_global_entities                *)

\* lines 437-456: the attribute value stored for one entry widget
saved_value(original_key, text) ==
    LET stripped == strip(text)
        new_value == IF original_key = "LoanAmount"
                     THEN strip(re_sub_remove({"$", ","}, stripped))
                     ELSE stripped
    IN  IF original_key = "BorrowerNames"
        THEN LET parts == split(new_value, ",")
                 kept == SelectSeq(parts, LAMBDA name : strip(name) # << >>)
             IN  List([i \in 1..Len(kept) |-> Str(strip(kept[i]))])
        ELSE Str(new_value)

\* lines 460-466: the legal description widget
saved_legal_present(legal_desc_detail_text) ==
    IF /\ legal_desc_detail_text # << >>
       /\ legal_desc_detail_text # NA
       /\ legal_desc_detail_text # LegalDescriptionIsMissing
    THEN Str(Yes)
    ELSE Str(No)

\* lines 436-466: the entities of the latest result after the save
saved_entities(entities, entries, widget) ==
    [f \in Fields |->
        IF widget.exists /\ f = "LegalDescriptionDetail"
        THEN Str(strip(widget.text))
        ELSE IF widget.exists /\ f = "LegalDescriptionPresent"
        THEN saved_legal_present(strip(widget.text))
        ELSE IF f \in DOMAIN entries.fields
        THEN saved_value(f, entries.fields[f])
        ELSE entities[f]]

---------------------------------------------------------------------------
(* Inputs.                                                                 *)

\* a MortgageDocumentEntities with some fields given
Entities(given) ==
    [f \in Fields |->
        IF f \in DOMAIN given THEN given[f] ELSE MortgageDocumentEntities[f]]

StrList(strs) == List([i \in 1..Len(strs) |-> Str(strs[i])])

\* ai_analysis_service.py:214: the AnalysisResult built for parsed
\* entities e; error and document_id take the defaults of the dataclass.
\* The captures of the model range over the values of this return type.
ServiceSuccess(e) == AnalysisResult(e, "Summary", NoError, UnnamedDocument)
\* ai_analysis_service.py:159: the AnalysisResult of a failure
ServiceError ==
    AnalysisResult(MortgageDocumentEntities, "", "Malformed AI response",
                   UnnamedDocument)

\* Captures of the model.  Every capture carries several fields, as a
\* real extraction does; the fold treats the fields one by one, so every
\* field sees every sequence of its own values.
\*   CaptureA  every field found
CaptureA ==
    Entities([LenderName |-> Str(<< "A", "b" >>),
              LoanAmount |-> Str(<< "$", "1", ",", "0" >>),
              BorrowerNames |-> StrList(<< << "A", "l", " ", "D", "." >> >>),
              RidersPresent |-> List(<< RiderOf(Str(<< "A" >>), Str(No)) >>),
              BorrowerSignaturesPresent |->
                    Dict(<< [k |-> << "A", "l" >>, v |-> Yes] >>),
              LegalDescriptionPresent |-> Str(No),
              LegalDescriptionDetail |-> Str(<< "L", "1" >>)])
\*   CaptureB  other values for the same fields; the presence flag without
\*             the detail
CaptureB ==
    Entities([LenderName |-> Str(<< "C", "d" >>),
              LoanAmount |-> Str(<< "2" >>),
              BorrowerNames |->
                    StrList(<< << "a", "l", " ", "d" >>, << "B", "o" >> >>),
              RidersPresent |-> List(<< RiderOf(Str(<< "B" >>), Str(Yes)),
                                        RiderOf(Str(<< "A" >>), Str(Yes)) >>),
              BorrowerSignaturesPresent |->
                    Dict(<< [k |-> << "B", "o" >>, v |-> No] >>),
              LegalDescriptionPresent |-> Str(Yes)])
\*   CaptureC  a partial read: a near-duplicate name and another detail
CaptureC ==
    Entities([BorrowerNames |-> StrList(<< << "A", "l", "d", "o" >> >>),
              LegalDescriptionDetail |-> Str(<< "L", "2" >>)])

\* a failed capture whose record was written to afterwards (Save Edits
\* writes into the latest result whether or not it carries an error)
ServiceErrorWith(e) == [ServiceError EXCEPT !.entities = e]

\* the captures folded by FoldSpec
FoldResults ==
    { ServiceSuccess(e) :
        e \in { MortgageDocumentEntities, CaptureA, CaptureB, CaptureC } }
    \cup { ServiceError, ServiceErrorWith(CaptureB) }

\* the service results of the session specification
Results ==
    { ServiceSuccess(e) : e \in { CaptureA, CaptureB } } \cup { ServiceError }

\* texts a user types into a widget before Save Edits
EditTexts == { << "$", "4", ",", "5" >> }

---------------------------------------------------------------------------
(* The session: MortgageDocumentAnalyzerApp and the window's handlers.     *)

\* last_op: the handler, the length of the capture list when it started,
\* and for an edited save the widget and the text
OpEdit(name, key, text) ==
    [op |-> name, key |-> key, text |-> text, len |-> Len(all_analysis_results)]
Op(name) == OpEdit(name, "", << >>)

\* main.py:173-178 and 362-367: the dummy result
DummyResult == AnalysisResult(MortgageDocumentEntities, "", NoError, DocumentId(0))

\* ResultsWindow.__init__ (line 38) populates the window from the list
InitWith(all_results) ==
    /\ all_analysis_results = all_results
    /\ combined_entities = combine_analysis_results(all_results)
    /\ entity_entries =
            display_entity_fields(combine_analysis_results(all_results))
    /\ legal_widget =
            display_legal_description_section(
                combine_analysis_results(all_results))
    /\ selecting = 0
    /\ analyzing = 0
    /\ ui_pending = 0
    /\ edits = 0
    /\ last_op = Op("init")

\* main.py:36-75: the application starts with the dummy result
Init == InitWith(<< DummyResult >>)

\* main.py:289-291: _update_ui_with_results schedules the refresh
schedule_ui == ui_pending' = ui_pending + 1

ui_unchanged == UNCHANGED << combined_entities, entity_entries, legal_widget >>

\* variant of workflow_except that appends the error result whatever the
\* last element is (C29 must fail with it)
workflow_except_append(results) ==
    Append(results,
           AnalysisResult(MortgageDocumentEntities, "",
                          "An unexpected error occurred",
                          DocumentIdError(Len(results) + 1)))

\* main.py:264-278: the except branch of the workflow
workflow_except(results) ==
    LET error_result ==
            AnalysisResult(MortgageDocumentEntities, "",
                           "An unexpected error occurred",
                           DocumentIdError(Len(results) + 1))
    IN  IF results # << >> /\ results[Len(results)].summary = Processing
        THEN [results EXCEPT ![Len(results)] = error_result]
        ELSE Append(results, error_result)

\* main.py:230-236: the placeholder result
placeholder_result(results) ==
    AnalysisResult(MortgageDocumentEntities, Processing, NoError,
                   DocumentId(Len(results) + 1))

\* main.py:247-249: the placeholder is replaced by the analysis result
store_result(results, analysis_result) ==
    [results EXCEPT
        ![Len(results)] =
            IF analysis_result.document_id = UnnamedDocument
            THEN [analysis_result EXCEPT !.document_id = DocumentId(Len(results))]
            ELSE analysis_result]

\* main.py:166 and 349: a hotkey or "Capture New Document" creates a task
\* that runs _run_analysis_workflow up to its first await (line 219)
StartWorkflow ==
    /\ selecting + analyzing < MaxTasks
    /\ selecting' = selecting + 1
    /\ UNCHANGED << all_analysis_results, analyzing, ui_pending, edits >>
    /\ ui_unchanged
    /\ last_op' = Op("start")

\* main.py:219-238: a region was selected; the placeholder is appended and
\* the task awaits the analysis (line 240)
RegionSelected ==
    /\ selecting > 0
    /\ Len(all_analysis_results) < MaxResults
    /\ ui_pending < MaxUiPending
    /\ all_analysis_results' =
            Append(all_analysis_results, placeholder_result(all_analysis_results))
    /\ selecting' = selecting - 1
    /\ analyzing' = analyzing + 1
    /\ schedule_ui
    /\ UNCHANGED edits
    /\ ui_unchanged
    /\ last_op' = Op("placeholder")

\* main.py:257-262: the capture was cancelled
CaptureCancelled ==
    /\ selecting > 0
    /\ ui_pending < MaxUiPending
    /\ all_analysis_results' =
            IF /\ Len(all_analysis_results) = 1
               /\ all_analysis_results[1].document_id = DocumentId(0)
            THEN << >>
            ELSE all_analysis_results
    /\ selecting' = selecting - 1
    /\ schedule_ui
    /\ UNCHANGED << analyzing, edits >>
    /\ ui_unchanged
    /\ last_op' = Op("cancelled")

\* main.py:219-228 raise (select_region, crop_image, the PNG conversion)
CaptureRaised ==
    /\ selecting > 0
    /\ ui_pending < MaxUiPending
    /\ Len(workflow_except(all_analysis_results)) <= MaxResults
    /\ all_analysis_results' = workflow_except(all_analysis_results)
    /\ selecting' = selecting - 1
    /\ schedule_ui
    /\ UNCHANGED << analyzing, edits >>
    /\ ui_unchanged
    /\ last_op' = Op("raised")

\* main.py:240-255: the analysis returned analysis_result; on an empty
\* list line 247 raises IndexError and the except branch runs
AnalysisReturned(analysis_result) ==
    /\ analyzing > 0
    /\ ui_pending < MaxUiPending
    /\ all_analysis_results' =
            IF all_analysis_results = << >>
            THEN workflow_except(all_analysis_results)
            ELSE store_result(all_analysis_results, analysis_result)
    /\ analyzing' = analyzing - 1
    /\ schedule_ui
    /\ UNCHANGED << selecting, edits >>
    /\ ui_unchanged
    /\ last_op' = Op("analysed")

\* main.py:293-334: the scheduled _manage_results_window_visibility runs
\* update_data on the window.  Lines 299-301 (a temporary error result
\* shown for an empty list) do not apply: a refresh that carries an error
\* message is scheduled with an error result in the list, and the list is
\* emptied only by line 261, which needs Document_0 alone.
UiRefresh ==
    /\ ui_pending > 0
    /\ ui_pending' = ui_pending - 1
    /\ populate_content(all_analysis_results)
    /\ UNCHANGED << all_analysis_results, selecting, analyzing, edits >>
    /\ last_op' = Op("refresh")

\* main.py:352-369: "Start New Session"
StartNewSession ==
    /\ all_analysis_results' = << DummyResult >>
    /\ populate_content(<< DummyResult >>)
    /\ UNCHANGED << selecting, analyzing, ui_pending, edits >>
    /\ last_op' = Op("reset")

\* the user replaces the text of one entry widget
typed_entries(entries, key, text) ==
    [entries EXCEPT !.fields[key] = text]

\* results_window.py:431-434: is there a result to save edits to
has_latest_result(results) == results # << >>

\* results_window.py:433 and 469: the message box that ends Save Edits,
\* the only report of its outcome (the method returns None either way)
EditsSaved == "Edits Saved"
NoData == "No Data"
save_report(results) ==
    IF ~has_latest_result(results) THEN NoData ELSE EditsSaved

\* results_window.py:425-469: "Save Edits" with the widgets as they are
save_edits(entries, widget) ==
    /\ all_analysis_results' =
            IF ~has_latest_result(all_analysis_results)
            THEN all_analysis_results
            ELSE [all_analysis_results EXCEPT
                    ![Len(all_analysis_results)].entities =
                        saved_entities(@, entries, widget)]
    /\ entity_entries' = entries
    /\ legal_widget' = widget
    /\ UNCHANGED << combined_entities, selecting, analyzing, ui_pending >>

\* Save Edits without a change to any widget
SaveEdits ==
    /\ edits < MaxEdits
    /\ edits' = edits + 1
    /\ save_edits(entity_entries, legal_widget)
    /\ last_op' = Op("save")

\* an entry is edited, then Save Edits
EditEntryAndSave ==
    \E key \in DOMAIN entity_entries.fields, text \in EditTexts :
        /\ edits < MaxEdits
        /\ edits' = edits + 1
        /\ save_edits(typed_entries(entity_entries, key, text), legal_widget)
        /\ last_op' = OpEdit("edit", key, text)

\* the legal description text is edited, then Save Edits
EditLegalAndSave ==
    \E text \in EditTexts :
        /\ edits < MaxEdits
        /\ edits' = edits + 1
        /\ legal_widget.exists
        /\ save_edits(entity_entries, [legal_widget EXCEPT !.text = text])
        /\ last_op' = OpEdit("edit", "LegalDescriptionDetail", text)

NextWith(results) ==
    \/ StartWorkflow
    \/ RegionSelected
    \/ CaptureCancelled
    \/ CaptureRaised
    \/ \E analysis_result \in results : AnalysisReturned(analysis_result)
    \/ UiRefresh
    \/ StartNewSession
    \/ SaveEdits
    \/ EditEntryAndSave
    \/ EditLegalAndSave

Next == NextWith(Results)

Spec == Init /\ [][Next]_vars

---------------------------------------------------------------------------
(* The fold alone: capture lists grown one completed capture at a time     *)
(* (placeholder, stored result and refresh in one step) from the states    *)
(* a session starts in, the dummy alone or, after a cancelled first        *)
(* capture, the empty list.                                                *)

InitFold ==
    \E all_results \in { << >>, << DummyResult >> } : InitWith(all_results)

AppendCapture(analysis_result) ==
    /\ Len(all_analysis_results) < MaxResults
    /\ all_analysis_results' =
            store_result(
                Append(all_analysis_results,
                       placeholder_result(all_analysis_results)),
                analysis_result)
    /\ populate_content(all_analysis_results')
    /\ UNCHANGED << selecting, analyzing, ui_pending, edits >>
    /\ last_op' = Op("append")

NextFold == \E analysis_result \in FoldResults : AppendCapture(analysis_result)

FoldSpec == InitFold /\ [][NextFold]_vars

---------------------------------------------------------------------------
(* The fold over captures at the edges of what the AnalysisResult type     *)
(* admits: the entities of a capture come from the JSON of the response    *)
(* (ai_analysis_service.py:161-213), whose item types nothing checks, and  *)
(* from Save Edits.                                                        *)

\* riders that are not a dict or carry no Name, before a well-formed one
CaptureBadRiders ==
    Entities([RidersPresent |->
        List(<< Str(<<"x">>), RiderOf(None, Str(Yes)),
                RiderOf(Str(<<"A">>), Str(Yes)) >>)])

\* a names list with an item that is not a str (a JSON null)
CaptureBadNames ==
    Entities([BorrowerNames |-> List(<< None, Str(<<"B", "o">>) >>)])

\* a LoanAmount made of a currency symbol alone
CaptureDollar == Entities([LoanAmount |-> Str(<<"$">>)])

\* the LoanAmount of CaptureA without '$' and ','
CapturePlain ==
    Entities([LenderName |-> Str(<<"A", "b">>), LoanAmount |-> Str(<<"1", "0">>)])

\* the text "No" as a lender name and as a borrower name
CaptureNo ==
    Entities([LenderName |-> Str(No), BorrowerNames |-> StrList(<< No >>)])

\* a borrower name made of punctuation alone, before a name
CapturePunct ==
    Entities([BorrowerNames |-> StrList(<< << "." >>, << "B", "o" >> >>)])

EdgeResults ==
    { ServiceSuccess(e) : e \in { CaptureA, CaptureBadRiders, CaptureBadNames,
                                   CaptureDollar, CapturePlain, CaptureNo,
                                   CapturePunct } }
    \cup { ServiceError }

NextEdge == \E analysis_result \in EdgeResults : AppendCapture(analysis_result)

EdgeSpec == InitFold /\ [][NextEdge]_vars

---------------------------------------------------------------------------
(* The extraction service: analyze_mortgage_document applied to the        *)
(* response of the API, and its result stored by the workflow.             *)

\* document_entities.py:18-45: the fields of MortgageDocumentEntities
DataclassFieldNames ==
    {"DocumentType", "BorrowerNames", "LenderName", "TrusteeName",
     "TrusteeAddress", "LoanAmount", "PropertyAddress", "DocumentDate",
     "MaturityDate", "APN_ParcelID", "RecordingStampPresent", "RecordingBook",
     "RecordingPage", "RecordingDocumentNumber", "RecordingDate",
     "RecordingTime", "ReRecordingInformation", "RecordingCost", "PageCount",
     "MissingPages", "BorrowerSignaturesPresent", "RidersPresent",
     "InitialedChangesPresent", "MERS_RiderSelected",
     "MERS_RiderSignedAttached", "MIN", "LegalDescriptionPresent",
     "LegalDescriptionDetail"}

\* ai_analysis_service.py:181-212: the keywords of the call
\* MortgageDocumentEntities(...)
ConstructorKeywords ==
    {"DocumentType", "BorrowerNames", "BorrowerAlias",
     "BorrowerWithRelationship", "BorrowerWithTenantInformation",
     "BorrowerAddress", "LenderName", "TrusteeName", "TrusteeAddress",
     "LoanAmount", "PropertyAddress", "DocumentDate", "MaturityDate",
     "APN_ParcelID", "RecordingStampPresent", "RecordingBook",
     "RecordingPage", "RecordingDocumentNumber", "RecordingDate",
     "RecordingTime", "ReRecordingInformation", "RecordingCost",
     "BorrowerSignaturesPresent", "RidersPresent", "InitialedChangesPresent",
     "MERS_RiderSelected", "MERS_RiderSignedAttached", "MIN",
     "LegalDescriptionPresent", "LegalDescriptionDetail"}

\* the responses of the API: a failure of the call, a content that is not
\* JSON, JSON without "entities" or "summary", and JSON with both, whose
\* entities are written here with the names of the dataclass
Response(kind, entities) == [kind |-> kind, entities |-> entities]

WellFormed == "well_formed"

Responses ==
    { Response(kind, MortgageDocumentEntities) :
        kind \in {"api_error", "not_json", "malformed"} }
    \cup { Response(WellFormed, e) :
            e \in { MortgageDocumentEntities, CaptureA, CaptureB, CaptureBadRiders } }

\* ai_analysis_service.py:166-178: the riders that are a dict with a Name
\* and a SignedAttached
riders_list(entities_dict) ==
    IF entities_dict["RidersPresent"].t = "list"
    THEN SelectSeq(entities_dict["RidersPresent"].v,
                   LAMBDA r : r.t = "rider" /\ r.v[1].t # "none" /\ r.v[2].t # "none")
    ELSE << >>

\* the result of lines 216-234 for an exception
service_failure(message) ==
    AnalysisResult(MortgageDocumentEntities, "", message, UnnamedDocument)

\* ai_analysis_service.py:28-234.  A keyword that is no field of the
\* dataclass makes the constructor raise TypeError, which the last except
\* clause (lines 232-234) turns into an error result.
analyze_mortgage_document(response) ==
    CASE response.kind = "api_error" -> service_failure("OpenAI API error")
      [] response.kind = "not_json" ->
            service_failure("AI response was not valid JSON")
      [] response.kind = "malformed" -> ServiceError
      [] OTHER ->
            IF ConstructorKeywords \subseteq DataclassFieldNames
            THEN ServiceSuccess(
                    [response.entities EXCEPT
                        !["RidersPresent"] = List(riders_list(response.entities))])
            ELSE service_failure("Unexpected error during AI analysis")

\* main.py:231-249 with the service in it: the response arrives, the
\* result of the service replaces the placeholder, the window is refreshed
ResponseReceived(response) ==
    /\ Len(all_analysis_results) < MaxResults
    /\ all_analysis_results' =
            store_result(
                Append(all_analysis_results,
                       placeholder_result(all_analysis_results)),
                analyze_mortgage_document(response))
    /\ populate_content(all_analysis_results')
    /\ UNCHANGED << selecting, analyzing, ui_pending, edits >>
    /\ last_op' = OpEdit("response", response.kind, << >>)

NextService == \E response \in Responses : ResponseReceived(response)

ServiceSpec == InitFold /\ [][NextService]_vars

---------------------------------------------------------------------------
(* Properties of the fold, checked under FoldSpec.                         *)

\* the captures of a list that carry no error, in arrival order
without_errors(all_results) ==
    SelectSeq(all_results, LAMBDA r : r.error = NoError)

has_error_capture(all_results) ==
    \E i \in DOMAIN all_results : all_results[i].error # NoError

\* the str fields of the record that the model carries, the presence flag
\* (rewritten by the final check) aside
ScalarFields ==
    {"LenderName", "RecordingStampPresent", "LoanAmount", "LegalDescriptionDetail"}

\* a scalar as the merged record holds it: LoanAmount without '$' and ','
shown_scalar(key, value) ==
    IF key = "LoanAmount"
    THEN Str(re_sub_remove({"$", ","}, strip(py_str(value))))
    ELSE value

\* the positions of the captures whose value for key is informative
informative_at(all_results, key) ==
    {i \in DOMAIN all_results : is_value_valid(all_results[i].entities[key])}

latest(positions) == CHOOSE i \in positions : \A j \in positions : j <= i

\* C1: for every scalar field and every list of captures without error,
\* the merged value is the value of the latest capture whose value for
\* that field is informative.
C1_LastInformativeWins ==
    \A key \in ScalarFields :
        LET at == informative_at(all_analysis_results, key)
        IN  (~has_error_capture(all_analysis_results) /\ at # {}) =>
                combined_entities.ent[key] =
                    shown_scalar(key,
                        all_analysis_results[latest(at)].entities[key])

\* C2: a field whose merged value is informative after folding a capture
\* list keeps an informative merged value when a capture is appended
\* (and so, step by step, under every extension of the list).
C2_SentinelNeverErases ==
    [][\A key \in Fields :
            is_value_valid(combined_entities.ent[key]) =>
                is_value_valid(combined_entities'.ent[key])]_vars

\* an informative LenderName, a later capture without one, still merged
C2_Witness ==
    /\ is_value_valid(combined_entities.ent["LenderName"])
    /\ \E i, j \in DOMAIN all_analysis_results :
        /\ i < j
        /\ all_analysis_results[i].error = NoError
        /\ all_analysis_results[j].error = NoError
        /\ is_value_valid(all_analysis_results[i].entities["LenderName"])
        /\ ~is_value_valid(all_analysis_results[j].entities["LenderName"])

merged_names(combined) == list_strs(combined.ent["BorrowerNames"])

\* C3: when a capture is appended, every name already merged stays, and no
\* name is added that the Similarity Matcher judges similar to a name
\* already merged: the similar item is discarded, the first-seen is kept.
C3_FuzzyDedup ==
    [][LET names == merged_names(combined_entities)
           names_after == merged_names(combined_entities')
       IN  /\ names \subseteq names_after
           /\ \A name \in names_after \ names :
                ~is_similar_name(names, name)]_vars

\* a later capture carried a name similar to one of an earlier capture;
\* the earlier one is merged and the later one is not
C3_Witness ==
    \E i, j \in DOMAIN all_analysis_results :
        /\ i < j
        /\ all_analysis_results[i].error = NoError
        /\ all_analysis_results[j].error = NoError
        /\ \E first \in list_strs(all_analysis_results[i].entities["BorrowerNames"]),
              second \in list_strs(all_analysis_results[j].entities["BorrowerNames"]) :
                /\ first # second
                /\ is_similar_name({first}, second)
                /\ first \in merged_names(combined_entities)
                /\ second \notin merged_names(combined_entities)

\* the riders with an informative Name that the captures without error
\* carry, in arrival order
RECURSIVE contributed_riders(_)
contributed_riders(all_results) ==
    IF all_results = << >> THEN << >>
    ELSE LET r == Head(all_results)
             own == IF r.error = NoError /\ r.entities["RidersPresent"].t = "list"
                    THEN SelectSeq(r.entities["RidersPresent"].v,
                                   LAMBDA x : x.t = "rider" /\ is_value_valid(x.v[1]))
                    ELSE << >>
         IN  own \o contributed_riders(Tail(all_results))

merged_riders(combined) ==
    IF combined.ent["RidersPresent"].t = "list"
    THEN combined.ent["RidersPresent"].v
    ELSE << >>

rider_names(riders) == {riders[i].v[1] : i \in DOMAIN riders}

first_at(riders, name) ==
    CHOOSE i \in DOMAIN riders :
        riders[i].v[1] = name /\ \A j \in 1..(i - 1) : riders[j].v[1] # name

last_at(riders, name) ==
    CHOOSE i \in DOMAIN riders :
        riders[i].v[1] = name /\ \A j \in (i + 1)..Len(riders) : riders[j].v[1] # name

\* C4: the merged RidersPresent has one entry per rider Name that a capture
\* carried, the entry is the latest one carried for that Name, and the
\* entries stand in the order in which their Names first arrived.
C4_RiderKeyOverwrite ==
    LET carried == contributed_riders(all_analysis_results)
        merged == merged_riders(combined_entities)
    IN  /\ \A i, j \in DOMAIN merged : merged[i].v[1] = merged[j].v[1] => i = j
        /\ rider_names(merged) = rider_names(carried)
        /\ \A i \in DOMAIN merged :
                merged[i] = carried[last_at(carried, merged[i].v[1])]
        /\ \A i, j \in DOMAIN merged :
                i < j => first_at(carried, merged[i].v[1])
                            < first_at(carried, merged[j].v[1])

\* a Name carried twice with different flags, and two Names merged
C4_Witness ==
    LET carried == contributed_riders(all_analysis_results)
    IN  /\ \E i, j \in DOMAIN carried :
                i < j /\ carried[i].v[1] = carried[j].v[1] /\ carried[i] # carried[j]
        /\ Len(merged_riders(combined_entities)) >= 2

\* the items of the signature maps of the captures without error, in
\* arrival order
RECURSIVE contributed_signatures(_)
contributed_signatures(all_results) ==
    IF all_results = << >> THEN << >>
    ELSE LET r == Head(all_results)
             own == IF /\ r.error = NoError
                       /\ r.entities["BorrowerSignaturesPresent"].t = "dict"
                    THEN r.entities["BorrowerSignaturesPresent"].v
                    ELSE << >>
         IN  own \o contributed_signatures(Tail(all_results))

merged_signatures(combined) ==
    IF combined.ent["BorrowerSignaturesPresent"].t = "dict"
    THEN combined.ent["BorrowerSignaturesPresent"].v
    ELSE << >>

\* C5: the merged BorrowerSignaturesPresent holds every key of every
\* capture's map, each with the value of the latest capture that has it.
C5_MapShallowMerge ==
    LET carried == contributed_signatures(all_analysis_results)
        merged == merged_signatures(combined_entities)
    IN  /\ {merged[i].k : i \in DOMAIN merged} = {carried[i].k : i \in DOMAIN carried}
        /\ \A i \in DOMAIN merged, j \in DOMAIN carried :
                (/\ carried[j].k = merged[i].k
                 /\ \A l \in (j + 1)..Len(carried) : carried[l].k # merged[i].k)
                    => merged[i].v = carried[j].v

\* C6: after the fold of any capture list the merged LegalDescriptionPresent
\* is "Yes" when the merged LegalDescriptionDetail is informative and "No"
\* when it is not.
C6_ConsistencyRepair ==
    combined_entities.ent["LegalDescriptionPresent"] =
        IF is_value_valid(combined_entities.ent["LegalDescriptionDetail"])
        THEN Str(Yes)
        ELSE Str(No)

\* the detail is informative and the flag is "Yes" although no capture of
\* the list reported "Yes"
C6_Witness ==
    /\ all_analysis_results # << >>
    /\ is_value_valid(combined_entities.ent["LegalDescriptionDetail"])
    /\ combined_entities.ent["LegalDescriptionPresent"] = Str(Yes)
    /\ \A i \in DOMAIN all_analysis_results :
        all_analysis_results[i].entities["LegalDescriptionPresent"] # Str(Yes)

\* C7: the merged field values of any capture list are those of the same
\* list with every capture that carries an error removed.
C7_ErrorIsolation ==
    combined_entities.ent =
        combine_analysis_results(without_errors(all_analysis_results)).ent

---------------------------------------------------------------------------
(* Properties of the session, checked under Spec.                          *)

\* C8: when Save Edits has returned (no refresh being scheduled), the
\* cached combined record is the fold of the capture list as it now is.
C8_EditRecomputes ==
    (last_op.op \in {"save", "edit"} /\ ui_pending = 0) =>
        combined_entities = combine_analysis_results(all_analysis_results)

\* C9: after an edit stored an informative value for a scalar field in the
\* latest capture, a capture without error, with no workflow in flight,
\* the fold of the capture list gives that value for the field.
C9_EditSeenAsLatest ==
    (/\ last_op.op = "edit"
     /\ last_op.key \in ScalarFields
     /\ selecting = 0 /\ analyzing = 0 /\ ui_pending = 0
     /\ all_analysis_results # << >>
     /\ all_analysis_results[Len(all_analysis_results)].error = NoError
     /\ is_value_valid(
            all_analysis_results[Len(all_analysis_results)].entities[last_op.key]))
        => combine_analysis_results(all_analysis_results).ent[last_op.key] =
                all_analysis_results[Len(all_analysis_results)].entities[last_op.key]

\* C10: while the capture list is empty or holds only Document_0, and
\* right after Start New Session, the combined record is the defaults of
\* the dataclass with no error entry.
C10_EmptySessionDefaults ==
    (\/ all_analysis_results = << >>
     \/ /\ Len(all_analysis_results) = 1
        /\ all_analysis_results[1].document_id = DocumentId(0)
     \/ last_op.op = "reset") =>
        combined_entities =
            [ent |-> MortgageDocumentEntities, err |-> << >>, raised |-> FALSE]

\* Start New Session on a list of three captures, after a save: back to
\* Document_0 alone and the defaults
C10_Witness ==
    /\ last_op.op = "reset"
    /\ last_op.len >= 3
    /\ edits > 0
    /\ all_analysis_results = << DummyResult >>
    /\ combined_entities = DefaultCombined

---------------------------------------------------------------------------
(* Determinism of the fold, checked under FoldSpec.                        *)

---------------------------------------------------------------------------
(* Properties of the capture workflows, checked under Spec.                *)

\* C12: at every moment at most one capture workflow is between its start
\* and its completion, and no workflow appends to the capture list while
\* the analysis call of another one is pending: never two placeholders
\* whose analyses are outstanding.
C12_SingleOutstanding ==
    /\ selecting + analyzing <= 1
    /\ analyzing <= 1

\* a stored result of an extraction, success or error: not the dummy of a
\* new session and not a placeholder
completed_result(r) ==
    /\ r.summary # Processing
    /\ r.document_id # DocumentId(0)

workflow_ops == {"start", "placeholder", "cancelled", "raised", "analysed", "refresh"}

\* C13: a step of a capture workflow, under every interleaving of the
\* workflows, leaves every completed result of the capture list in the
\* list, at its position and as it was stored; only a session reset
\* discards it.
C13_NeverDeleted ==
    [][last_op'.op \in workflow_ops =>
            \A i \in DOMAIN all_analysis_results :
                completed_result(all_analysis_results[i]) =>
                    /\ i \in DOMAIN all_analysis_results'
                    /\ all_analysis_results'[i] = all_analysis_results[i]]_vars

\* C19: after the fold of a capture list that is not empty, a list of
\* error captures only included, every field of the schema is a key of the
\* combined record.
C19_NeverFoundFieldsPresent ==
    all_analysis_results # << >> =>
        \A key \in Fields : combined_entities.ent[key].t # "absent"

\* C28: the merged BorrowerNames is in ascending order without a
\* repeated entry, and no entry is similar to another entry.
C28_PairwiseDissimilar ==
    LET stored == combined_entities.ent["BorrowerNames"]
    IN  stored.t = "list" =>
            /\ \A i, j \in DOMAIN stored.v :
                    i < j => str_less(stored.v[i].v, stored.v[j].v)
            /\ \A a, b \in merged_names(combined_entities) :
                    a # b => ~is_similar_name({a}, b)

\* two names or more are merged, and a capture carried a name that is
\* similar to a merged one and is not merged itself
C28_Witness ==
    /\ Cardinality(merged_names(combined_entities)) >= 2
    /\ \E i \in DOMAIN all_analysis_results :
        /\ all_analysis_results[i].error = NoError
        /\ \E name \in list_strs(all_analysis_results[i].entities["BorrowerNames"]) :
                /\ name \notin merged_names(combined_entities)
                /\ is_similar_name(merged_names(combined_entities), name)

---------------------------------------------------------------------------
(* Properties of the fold at the edges, checked under EdgeSpec.            *)

\* the entities of a capture without the malformed elements of its lists:
\* the names that are not a str, the riders that are not a rider dict or
\* carry no Name
well_formed_entities(e) ==
    [e EXCEPT
        !["BorrowerNames"] =
            IF @.t = "list"
            THEN List(SelectSeq(@.v, LAMBDA x : x.t = "str")) ELSE @,
        !["RidersPresent"] =
            IF @.t = "list"
            THEN List(SelectSeq(@.v, LAMBDA x : x.t = "rider" /\ x.v[1].t = "str"))
            ELSE @]

well_formed(all_results) ==
    [i \in DOMAIN all_results |->
        [all_results[i] EXCEPT !.entities = well_formed_entities(@)]]

\* C14: the fold of a capture list whose list fields hold non-text items
\* or malformed riders completes without raising, and its record is the
\* record of the list with exactly the malformed elements dropped.
C14_NoRaiseOnAnomalies ==
    /\ ~combine_analysis_results(all_analysis_results).raised
    /\ combine_analysis_results(all_analysis_results).ent =
            combine_analysis_results(well_formed(all_analysis_results)).ent

\* the capture list with '$' and ',' removed from every LoanAmount
without_currency(all_results) ==
    [i \in DOMAIN all_results |->
        [all_results[i] EXCEPT
            !.entities["LoanAmount"] =
                IF @.t = "str" THEN Str(re_sub_remove({"$", ","}, @.v)) ELSE @]]

\* C16: a capture list and the list that differs from it only by the '$'
\* and ',' of its LoanAmount values merge to the same LoanAmount, and the
\* merged LoanAmount holds neither character.
C16_CurrencyNormalization ==
    LET merged == combine_analysis_results(all_analysis_results)
        plain == combine_analysis_results(without_currency(all_analysis_results))
    IN  ~merged.raised =>
            /\ merged.ent["LoanAmount"] = plain.ent["LoanAmount"]
            /\ merged.ent["LoanAmount"].t = "str" =>
                    Range(merged.ent["LoanAmount"].v) \cap {"$", ","} = {}

---------------------------------------------------------------------------
(* Properties of the edits, checked under Spec.                            *)

\* the text of an edit without '$' and ','
edited_amount == re_sub_remove({"$", ","}, strip(last_op.text))

\* C15: after an edit of LoanAmount to a text with '$' and ',' the most
\* recent capture holds the text without them, and a recompute over the
\* capture list gives that text as the merged LoanAmount, whatever the
\* earlier captures carry.
C15_LoanAmountWriteBack ==
    (last_op.op = "edit" /\ last_op.key = "LoanAmount") =>
        /\ all_analysis_results[Len(all_analysis_results)].entities["LoanAmount"]
                = Str(edited_amount)
        /\ combine_analysis_results(all_analysis_results).ent["LoanAmount"]
                = Str(edited_amount)

\* C17: an edit of an entry whose name is not a field of the record (the
\* entries of the window named "Error (Document_n)") is reported as a
\* failure: Save Edits does not end with the message of a successful save.
C17_UnknownFieldFails ==
    (last_op.op \in {"save", "edit"} /\ entity_entries.errors # {}) =>
        save_report(all_analysis_results) # EditsSaved

\* C18: Save Edits pressed while the capture list is empty creates a
\* capture that holds the edited values: afterwards the session has
\* exactly one capture.
C18_EditOnEmptySession ==
    (last_op.op \in {"save", "edit"} /\ last_op.len = 0) =>
        Len(all_analysis_results) = 1

---------------------------------------------------------------------------
(* The validity test, checked under EdgeSpec.                              *)

\* the fields that tell whether a thing is present
PresenceFields ==
    {"RecordingStampPresent", "LegalDescriptionPresent"}

\* C20: the text "No" is informative as the value of a plain text field
\* and as an item of a text list; it is not informative for the presence
\* fields only.
C20_NoIsInformativeForText ==
    \A i \in DOMAIN all_analysis_results :
        LET entities == all_analysis_results[i].entities
        IN  /\ \A key \in ScalarFields \ PresenceFields :
                    (entities[key].t = "str" /\ strip(entities[key].v) = No)
                        => is_value_valid(entities[key])
            /\ \A name \in list_strs(entities["BorrowerNames"]) :
                    strip(name) = No => is_value_valid(Str(strip(name)))

\* C21: the validity test depends on the trimmed, lower-cased text only:
\* every str value of a capture is classified as its trimmed, lower-cased
\* form is, so that two values with the same form are classified alike.
C21_ClassifierCaseBlind ==
    \A i \in DOMAIN all_analysis_results, key \in Fields :
        LET value == all_analysis_results[i].entities[key]
        IN  value.t = "str" =>
                is_value_valid(value) = is_value_valid(Str(lower(strip(value.v))))

\* the names of the captures without error whose normalized form is empty
empty_normalized_names(all_results) ==
    UNION { {name \in list_strs(all_results[i].entities["BorrowerNames"]) :
                normalize_string_for_comparison(name) = << >>} :
            i \in {j \in DOMAIN all_results : all_results[j].error = NoError} }

\* C22: a name whose normalized form is empty is never reported similar
\* to a merged name, and no name with an empty normalized form is in the
\* merged BorrowerNames.
C22_EmptyNormalizedDiscarded ==
    /\ \A name \in empty_normalized_names(all_analysis_results) :
            ~is_similar_name(merged_names(combined_entities), name)
    /\ \A name \in merged_names(combined_entities) :
            normalize_string_for_comparison(name) # << >>

---------------------------------------------------------------------------
(* Properties of interleaved workflows, resets and edits, checked under    *)
(* Spec.                                                                   *)

no_placeholder(all_results) ==
    \A i \in DOMAIN all_results : all_results[i].summary # Processing

\* C23: once every capture workflow has ended, no entry of the capture
\* list is still the "Processing..." placeholder (the result of the
\* workflow that appended it was stored over another entry, or lost).
C23_NoStrandedCapture ==
    (selecting = 0 /\ analyzing = 0) => no_placeholder(all_analysis_results)

\* C24: an analysis that returns right after "Start New Session" (it was
\* pending when the session was reset) adds nothing to the new session:
\* the capture list stays the dummy alone.
C24_ResetIsolation ==
    [][(last_op.op = "reset" /\ last_op'.op = "analysed") =>
            all_analysis_results' = << DummyResult >>]_vars

\* the value that Save Edits stored for the edited key
edited_value ==
    IF last_op.key = "LegalDescriptionDetail"
    THEN Str(strip(last_op.text))
    ELSE saved_value(last_op.key, last_op.text)

\* C25: a value written by Save Edits while an analysis is pending is
\* still held by a capture of the list when the analysis has returned.
C25_EditSurvivesExtraction ==
    [][(last_op.op = "edit" /\ analyzing > 0 /\ last_op'.op = "analysed") =>
            \E i \in DOMAIN all_analysis_results' :
                all_analysis_results'[i].entities[last_op.key] = edited_value]_vars

\* C26: with no workflow in flight, the window up to date and a most
\* recent capture without error, Save Edits with no entry changed leaves
\* the fold of the capture list as it was: a recompute gives the combined
\* record shown before the save.
C26_SaveUnmodifiedNoOp ==
    (/\ last_op.op = "save"
     /\ selecting = 0 /\ analyzing = 0 /\ ui_pending = 0
     /\ all_analysis_results # << >>
     /\ all_analysis_results[Len(all_analysis_results)].error = NoError) =>
        combine_analysis_results(all_analysis_results).ent = combined_entities.ent

\* C27: no two entries of the capture list carry the same document_id.
C27_UniqueLabels ==
    \A i, j \in DOMAIN all_analysis_results :
        i # j => all_analysis_results[i].document_id
                    # all_analysis_results[j].document_id

\* the list is results with one error capture after it and no placeholder
one_error_added(results, after) ==
    /\ Len(after) = Len(results) + 1
    /\ SubSeq(after, 1, Len(results)) = results
    /\ after[Len(after)].error # NoError
    /\ no_placeholder(after)

\* C29: a workflow that raises while no other workflow is in flight
\* leaves the capture list one entry longer than it was when the workflow
\* started, the new entry carrying the error and no placeholder being
\* left: in every state where a lone workflow awaits its region, and in
\* every state where it awaits its analysis with its placeholder as the
\* last entry, the except branch gives such a list.
C29_OneErrorCapture ==
    LET n == Len(all_analysis_results)
    IN  /\ (selecting = 1 /\ analyzing = 0
                /\ no_placeholder(all_analysis_results)) =>
                one_error_added(all_analysis_results,
                                workflow_except(all_analysis_results))
        /\ (selecting = 0 /\ analyzing = 1 /\ n > 0
                /\ all_analysis_results[n].summary = Processing
                /\ no_placeholder(SubSeq(all_analysis_results, 1, n - 1))) =>
                one_error_added(SubSeq(all_analysis_results, 1, n - 1),
                                workflow_except(all_analysis_results))

\* a lone workflow raised on a list of two captures or more: the list is
\* one error capture longer
C29_Witness ==
    /\ last_op.op = "raised"
    /\ last_op.len >= 2
    /\ selecting = 0 /\ analyzing = 0
    /\ Len(all_analysis_results) = last_op.len + 1
    /\ all_analysis_results[Len(all_analysis_results)].error # NoError
    /\ no_placeholder(all_analysis_results)

---------------------------------------------------------------------------
(* The service, checked under ServiceSpec.                                 *)

\* C30: the capture stored for a well-formed response (valid JSON with
\* "entities" and "summary") carries no error.
C30_WellFormedSucceeds ==
    last_op.op = "response" /\ last_op.key = WellFormed =>
        all_analysis_results[Len(all_analysis_results)].error = NoError

===========================================================================
